---- MODULE Spec2Model ----
(***************************************************************************)
(* Model of the two DigitalPlat renewal scripts, src/renew.py and          *)
(* src/domains.py.  One run of one script is one behaviour: Init picks the *)
(* script and its environment variables, and each action is one block of   *)
(* run_renewal (renew.py) or main (domains.py) together with the functions *)
(* that block calls.  The web site, the browser driver and the Telegram    *)
(* endpoint are the environment: every reply they can give is an input     *)
(* drawn with \E.                                                          *)
(***************************************************************************)
EXTENDS Integers, Sequences, FiniteSets, TLC

\* Largest number of rows the domain table returns in one attempt.
MaxRows == 2

\* ------------------------------------------------------------------------
\* Program constants
\* ------------------------------------------------------------------------
RenewMaxRetries == 5
DomainsMaxRetries == 3
CloudflareMaxRetries == 3
\* for i in range(24): polls of one challenge page
CloudflarePolls == 24
\* Marker entries of the lists: domain = "未知域名" and the list-load entry.
UnknownRow == 0

Scripts == {"renew", "domains"}
EnvValues == {"unset", "empty", "set"}

VARIABLES
    script,      \* which script runs
    email,       \* DP_EMAIL
    password,    \* DP_PASSWORD
    tgSet,       \* TG_TOKEN and TG_CHAT_ID are both set
    pc,          \* position of the run
    attempt,     \* loop variable of the whole-run loop (0 before the loop)
    lattempt,    \* loop variable of login's own loop (renew.py)
    pending,     \* how the try block was left: "none", "break" or "raise"
    exitStatus,  \* process exit status, -1 while running
    nfailed,     \* number of attempts that entered the except handler
    pwVar,       \* local variable playwright is not None
    brVar,       \* local variable browser is not None
    pageOf,      \* attempt that bound the local variable page (0: unbound)
    pwLive,      \* drivers started and not stopped
    brLive,      \* browsers launched and not closed
    started,     \* this attempt started a driver
    launched,    \* this attempt launched a browser
    stops,       \* playwright.stop() calls made in this attempt
    closes,      \* browser.close() calls made in this attempt
    renewed,     \* renewed_domains
    failed,      \* failed_domains
    skipped,     \* skipped_domains (renew.py)
    errors,      \* errors (renew.py)
    nrows,       \* rows enumerated in this attempt
    rowIdx,      \* next row of the row loop
    rowFail,     \* rows of this attempt whose processing failed
    rowRes,      \* how the last pass of the row loop of this attempt went (domains.py)
    sent,        \* outbound notification requests, in order
    lres,        \* what the login call gave its caller: "True", "False", "raise"
    lpasses,     \* passes of the login call in progress
    navsCall,    \* loads of the login URL by the login call in progress
    submitsCall, \* credential submissions of the login call in progress
    cfRes,       \* result of the handle_cloudflare_with_retry call just made
    cfLoads,     \* loads of the URL that call made
    cfPolls,     \* most polls of one challenge page in that call
    submitsRun,  \* credential submissions of the whole run
    sendFails,   \* notification requests that failed
    sleeps,      \* asyncio.sleep(30) calls of the whole-run loop
    shotTaken,   \* this attempt saved a screenshot of its own page after failing
    resultWrites,\* writes of a result record to a file
    reportStyle, \* which of its two texts the completion report carried
    loadFailed,  \* this attempt failed to load the domain list
    fn,          \* the function examined on its own ("none": a whole run)
    arg,         \* what the environment gives that one call
    called,      \* the call has been made
    ret          \* what the call gave its caller

cfgVars == <<script, email, password, tgSet>>
ctlVars == <<pc, attempt, lattempt, pending, exitStatus, nfailed>>
brVars == <<pwVar, brVar, pageOf, pwLive, brLive, started, launched, stops, closes>>
rowVars == <<renewed, failed, skipped, errors, nrows, rowIdx, rowFail, rowRes>>
callVars == <<lres, lpasses, navsCall, submitsCall, cfRes, cfLoads, cfPolls>>
obsVars == <<sendFails, sleeps, shotTaken, resultWrites, reportStyle, loadFailed>>
fnVars == <<fn, arg, called, ret>>
vars == <<cfgVars, ctlVars, brVars, rowVars, sent, callVars, submitsRun, obsVars, fnVars>>

max_retries == IF script = "renew" THEN RenewMaxRetries ELSE DomainsMaxRetries

\* Python truthiness of an environment value: `not value`.
MissingNoneOnly(v) == v = "unset"
Missing(v) == v \in {"unset", "empty"}

\* A list entry: the row it was recorded for and whether it carries the
\* row's domain name (FALSE: "未知域名" or the list-load marker).
Entry(i, named) == <<i, named>>
Count(s, i) == Cardinality({k \in 1..Len(s) : s[k][1] = i})

\* send_telegram_notification / tg_send: an outbound request is made only
\* when token and chat id are set; whatever the request does, the call
\* returns normally.
NotifyAlways(kind) == Append(sent, kind)
Notify(kind) == IF tgSet THEN Append(sent, kind) ELSE sent

\* What the request of one notification send meets.
SendOutcomes == {"ok", "http_error", "nonzero_rc", "timeout", "exception"}

\* The body of send_telegram_notification / tg_send after the early return:
\* the whole of it is inside `try ... except Exception`, so nothing reaches
\* the caller.  failed: the request was made and did not succeed.
send_uncaught(o) == [raises |-> tgSet /\ o = "exception", failed |-> tgSet /\ o # "ok"]
send_telegram_notification(o) == [raises |-> FALSE, failed |-> tgSet /\ o # "ok"]

Failures(r) == IF r.failed THEN 1 ELSE 0

\* Nothing of the run has happened yet.
NotStarted ==
    /\ pc = "start"
    /\ attempt = 0
    /\ lattempt = 0
    /\ pending = "none"
    /\ exitStatus = -1
    /\ nfailed = 0
    /\ pwVar = FALSE
    /\ brVar = FALSE
    /\ pageOf = 0
    /\ pwLive = 0
    /\ brLive = 0
    /\ started = FALSE
    /\ launched = FALSE
    /\ stops = 0
    /\ closes = 0
    /\ renewed = <<>>
    /\ failed = <<>>
    /\ skipped = <<>>
    /\ errors = <<>>
    /\ nrows = 0
    /\ rowIdx = 1
    /\ rowFail = {}
    /\ rowRes = "none"
    /\ sent = <<>>
    /\ lres = "none"
    /\ lpasses = 0
    /\ navsCall = 0
    /\ submitsCall = 0
    /\ cfRes = "none"
    /\ cfLoads = 0
    /\ cfPolls = 0
    /\ submitsRun = 0
    /\ sendFails = 0
    /\ sleeps = 0
    /\ shotTaken = FALSE
    /\ resultWrites = 0
    /\ reportStyle = "none"
    /\ loadFailed = FALSE

\* No call is examined on its own.
NoCall == [kind |-> "none"]

Init ==
    /\ script \in Scripts
    /\ email \in EnvValues
    /\ password \in EnvValues
    /\ tgSet \in BOOLEAN
    /\ NotStarted
    /\ fn = "none"
    /\ arg = NoCall
    /\ called = FALSE
    /\ ret = NoCall

\* ------------------------------------------------------------------------
\* Configuration check
\* ------------------------------------------------------------------------
\* renew.py validate_config: notify and sys.exit(1) when a variable is
\* missing.
validate_config ==
    /\ pc = "start"
    /\ script = "renew"
    /\ IF Missing(email) \/ Missing(password)
       THEN \E o \in SendOutcomes :
              LET r == send_telegram_notification(o)
              IN  /\ sent' = Notify("config")
                  /\ sendFails' = sendFails + Failures(r)
                  /\ IF r.raises
                     THEN /\ pc' = "crashed"
                          /\ UNCHANGED exitStatus
                     ELSE /\ exitStatus' = 1
                          /\ pc' = "exited"
       ELSE /\ pc' = "loop"
            /\ UNCHANGED <<sent, exitStatus, sendFails>>
    /\ UNCHANGED <<cfgVars, fnVars, attempt, lattempt, pending, nfailed, brVars, rowVars,
                   callVars, submitsRun, sleeps, shotTaken, resultWrites, reportStyle, loadFailed>>

\* domains.py main, the check before the loop: exit(1), then the two lists
\* are created once for the whole run.
main_config_check ==
    /\ pc = "start"
    /\ script = "domains"
    /\ IF Missing(email) \/ Missing(password)
       THEN /\ exitStatus' = 1
            /\ pc' = "exited"
            /\ UNCHANGED <<renewed, failed>>
       ELSE /\ pc' = "loop"
            /\ renewed' = <<>>
            /\ failed' = <<>>
            /\ UNCHANGED exitStatus
    /\ UNCHANGED <<cfgVars, fnVars, attempt, lattempt, pending, nfailed, brVars,
                   skipped, errors, nrows, rowIdx, rowFail, rowRes, sent,
                   callVars, submitsRun, obsVars>>

\* ------------------------------------------------------------------------
\* The whole-run loop
\* ------------------------------------------------------------------------
range_has_next_off_by_one(k, n) == k <= n
range_has_next(k, n) == k < n

\* for attempt in range(1, max_retries + 1): playwright = None; browser = None
loop_head ==
    /\ pc = "loop"
    /\ IF range_has_next(attempt, max_retries)
       THEN /\ attempt' = attempt + 1
            /\ pc' = "init"
            /\ pwVar' = FALSE
            /\ brVar' = FALSE
            /\ started' = FALSE
            /\ launched' = FALSE
            /\ stops' = 0
            /\ closes' = 0
            /\ nrows' = 0
            /\ rowIdx' = 1
            /\ rowFail' = {}
            /\ rowRes' = "none"
            /\ lattempt' = 0
            /\ shotTaken' = FALSE
            /\ loadFailed' = FALSE
       ELSE /\ pc' = "returned"
            /\ UNCHANGED <<attempt, pwVar, brVar, started, launched, stops,
                           closes, nrows, rowIdx, rowFail, rowRes, lattempt,
                           shotTaken, loadFailed>>
    /\ pending' = "none"
    /\ UNCHANGED <<cfgVars, fnVars, exitStatus, nfailed, pageOf, pwLive, brLive,
                   renewed, failed, skipped, errors, sent,
                   callVars, submitsRun, sendFails, sleeps, resultWrites, reportStyle>>

InitOutcomes == {"start_raises", "launch_raises", "context_raises", "page_raises", "ok"}

\* renew.py run_renewal: async_playwright().start(), setup_browser_context,
\* context.new_page(), add_anti_detection_scripts.  The browser handle
\* reaches run_renewal only when setup_browser_context returns.
setup_browser_context ==
    /\ pc = "init"
    /\ script = "renew"
    /\ \E o \in InitOutcomes :
        /\ pwVar' = (o # "start_raises")
        /\ started' = (o # "start_raises")
        /\ pwLive' = IF o # "start_raises" THEN pwLive + 1 ELSE pwLive
        /\ launched' = (o \in {"context_raises", "page_raises", "ok"})
        /\ brLive' = IF o \in {"context_raises", "page_raises", "ok"}
                     THEN brLive + 1 ELSE brLive
        /\ brVar' = (o \in {"page_raises", "ok"})
        /\ pageOf' = IF o = "ok" THEN attempt ELSE pageOf
        /\ pc' = IF o = "ok" THEN "login" ELSE "except"
    /\ UNCHANGED <<cfgVars, fnVars, attempt, lattempt, pending, exitStatus, nfailed,
                   stops, closes, rowVars, sent, callVars, submitsRun, obsVars>>

\* domains.py init_browser: start, launch, new_context and new_page all
\* happen inside init_browser, which re-raises; main binds the four handles
\* only when init_browser returns.
init_browser ==
    /\ pc = "init"
    /\ script = "domains"
    /\ \E o \in InitOutcomes :
        /\ started' = (o # "start_raises")
        /\ pwLive' = IF o # "start_raises" THEN pwLive + 1 ELSE pwLive
        /\ launched' = (o \in {"context_raises", "page_raises", "ok"})
        /\ brLive' = IF o \in {"context_raises", "page_raises", "ok"}
                     THEN brLive + 1 ELSE brLive
        /\ pwVar' = (o = "ok")
        /\ brVar' = (o = "ok")
        /\ pageOf' = IF o = "ok" THEN attempt ELSE pageOf
        /\ pc' = IF o = "ok" THEN "login" ELSE "except"
    /\ UNCHANGED <<cfgVars, fnVars, attempt, lattempt, pending, exitStatus, nfailed,
                   stops, closes, rowVars, sent, callVars, submitsRun, obsVars>>

\* ------------------------------------------------------------------------
\* Login
\* ------------------------------------------------------------------------
\* What one page load of handle_cloudflare_with_retry meets.
LoadOutcomes == {"login", "other", "chal_clear", "chal_timeout", "load_timeout", "error"}

\* handle_cloudflare_with_retry(page, url, max_retries=3), from attempt k
\* (0-based) on: "True", "False" or "raise".
RECURSIVE handle_cloudflare_with_retry(_, _, _)
handle_cloudflare_with_retry(loads, k, n) ==
    IF k >= n THEN "False"
    ELSE IF loads[k + 1] \in {"login", "other", "chal_clear"} THEN "True"
    ELSE IF loads[k + 1] = "chal_timeout"
         THEN handle_cloudflare_with_retry(loads, k + 1, n)
    ELSE IF k = n - 1 THEN "raise"
    ELSE handle_cloudflare_with_retry(loads, k + 1, n)

\* Loads of the URL made by handle_cloudflare_with_retry from attempt k on.
RECURSIVE cf_loads(_, _, _)
cf_loads(loads, k, n) ==
    IF k >= n THEN 0
    ELSE IF loads[k + 1] \in {"login", "other", "chal_clear"} THEN 1
    ELSE 1 + cf_loads(loads, k + 1, n)

\* The poll at which a challenge page clears (first or last of the 24).
ClearPolls == {1, CloudflarePolls}

\* Most polls spent on one challenge page from attempt k on: a challenge
\* that clears at poll c takes c polls, one that never clears takes all.
RECURSIVE cf_polls(_, _, _, _)
cf_polls(loads, k, n, c) ==
    IF k >= n THEN 0
    ELSE IF loads[k + 1] = "chal_clear" THEN c
    ELSE IF loads[k + 1] \in {"login", "other"} THEN 0
    ELSE LET here == IF loads[k + 1] = "chal_timeout" THEN CloudflarePolls ELSE 0
             rest == cf_polls(loads, k + 1, n, c)
         IN  IF here >= rest THEN here ELSE rest

\* What one load of the URL shows: exc is the exception of page.goto (or
\* "none"); urlChal / urlLogin say whether page.url contains "challenge" /
\* "auth/login" right after the load, contChal whether the content holds
\* "cf-chl-w" or "ray_id"; pollChal / pollLogin are the same two facts of
\* the URL the polls of a challenge page end on.
LoadObs ==
    {o \in [exc : {"none", "timeout", "error"}, urlChal : BOOLEAN, contChal : BOOLEAN,
            urlLogin : BOOLEAN, pollChal : BOOLEAN, pollLogin : BOOLEAN] :
        /\ o.exc # "none" => ~(o.urlChal \/ o.contChal \/ o.urlLogin)
        /\ ~(o.urlChal \/ o.contChal) => ~(o.pollChal \/ o.pollLogin)}

\* `"challenge" in current_url or "cf-chl-w" in page_content or ...`
challenge_detected(o) == o.urlChal \/ o.contChal

\* The test of a poll:
\* `"challenge" not in current_url and "auth/login" in current_url`.
poll_clears_any_url(o) == ~o.pollChal
poll_clears(o) == ~o.pollChal /\ o.pollLogin

\* The branch one load of handle_cloudflare_with_retry takes.
load_outcome(o) ==
    IF o.exc = "timeout" THEN "load_timeout"
    ELSE IF o.exc = "error" THEN "error"
    ELSE IF challenge_detected(o)
         THEN IF poll_clears(o) THEN "chal_clear" ELSE "chal_timeout"
    ELSE IF o.urlLogin THEN "login"
    ELSE "other"

\* The URL the function last read in that load.
last_url(o) ==
    IF challenge_detected(o) THEN [chal |-> o.pollChal, login |-> o.pollLogin]
    ELSE [chal |-> o.urlChal, login |-> o.urlLogin]

\* One whole call of handle_cloudflare_with_retry(page, url) on the loads
\* obs[1], obs[2], ...; a challenge that clears does so at poll c.
cloudflare_call(obs, c) ==
    LET loads == [i \in 1..CloudflareMaxRetries |-> load_outcome(obs[i])]
        n == cf_loads(loads, 0, CloudflareMaxRetries)
    IN  [kind |-> "cf",
         res |-> handle_cloudflare_with_retry(loads, 0, CloudflareMaxRetries),
         loads |-> n,
         polls |-> cf_polls(loads, 0, CloudflareMaxRetries, c),
         last |-> obs[n]]

\* Every way one call of handle_cloudflare_with_retry can go: its result,
\* the loads it made and the most polls it spent on one page.
CloudflareCalls ==
    {[cf |-> handle_cloudflare_with_retry(l, 0, CloudflareMaxRetries),
      loads |-> cf_loads(l, 0, CloudflareMaxRetries),
      polls |-> cf_polls(l, 0, CloudflareMaxRetries, c)] :
        l \in [1..CloudflareMaxRetries -> LoadOutcomes], c \in ClearPolls}

\* What the steps after the Cloudflare handling meet in one pass of login.
LoginSteps == {"form_timeout", "form_error", "fill_error", "logged_in",
               "late_ok", "check_error", "rejected", "rejected_shot_raises"}

\* One pass of login's loop body for loop variable k: "True" (return True),
\* "raise" (the exception leaves login) or "retry" (next pass).
login_pass_continues_on_last(k, cf, step) ==
    IF cf = "True" /\ step \in {"logged_in", "late_ok"} THEN "True"
    ELSE IF k = max_retries - 1 /\ cf # "False" THEN "raise"
    ELSE "retry"
login_pass(k, cf, step) ==
    LET last == (k = max_retries - 1)
    IN  IF cf = "True" /\ step \in {"logged_in", "late_ok"} THEN "True"
        ELSE IF last THEN "raise"
        ELSE "retry"

\* submit_button.click() of one pass: reached when the form was found and
\* filled.
login_submits_twice(cf, step) ==
    IF cf = "True" /\ step \notin {"form_timeout", "form_error", "fill_error"} THEN 2 ELSE 0
login_submits(cf, step) ==
    IF cf = "True" /\ step \notin {"form_timeout", "form_error", "fill_error"} THEN 1 ELSE 0

\* page.screenshot(path="login_failed.png"): last pass, credentials rejected.
login_shot(k, cf, step) == cf = "True" /\ step = "rejected" /\ k = max_retries - 1

\* renew.py login, head of its loop and the call of
\* handle_cloudflare_with_retry that opens a pass; after the loop,
\* `return False`.
login ==
    /\ pc = "login"
    /\ script = "renew"
    /\ IF lattempt < max_retries
       THEN \E call \in CloudflareCalls :
              /\ pc' = "login_cf"
              /\ cfRes' = call.cf
              /\ cfLoads' = call.loads
              /\ cfPolls' = call.polls
              /\ navsCall' = navsCall + call.loads
              /\ lpasses' = lpasses + 1
              /\ UNCHANGED lres
       ELSE /\ pc' = "login_ret"
            /\ lres' = "False"
            /\ UNCHANGED <<cfRes, cfLoads, cfPolls, navsCall, lpasses>>
    /\ UNCHANGED <<cfgVars, fnVars, attempt, lattempt, pending, exitStatus, nfailed, brVars,
                   rowVars, sent, submitsCall, submitsRun, obsVars>>

\* renew.py login, the rest of a pass once handle_cloudflare_with_retry is
\* back: the form, the submission, the check, and the pass's handler.
login_form ==
    /\ pc = "login_cf"
    /\ \E step \in LoginSteps :
        LET r == login_pass(lattempt, cfRes, step)
        IN  /\ pc' = IF r = "retry" THEN "login" ELSE "login_ret"
            /\ lres' = IF r = "retry" THEN lres ELSE r
            /\ lattempt' = IF r = "retry" THEN lattempt + 1 ELSE lattempt
            /\ submitsCall' = submitsCall + login_submits(cfRes, step)
            /\ submitsRun' = submitsRun + login_submits(cfRes, step)
            /\ shotTaken' = (shotTaken \/ login_shot(lattempt, cfRes, step))
    /\ cfRes' = "none"
    /\ cfLoads' = 0
    /\ cfPolls' = 0
    /\ UNCHANGED <<cfgVars, fnVars, attempt, pending, exitStatus, nfailed, brVars, rowVars,
                   sent, lpasses, navsCall, sendFails, sleeps, resultWrites, reportStyle, loadFailed>>

DoLoginInputs == {"none", "goto", "email_wait", "email_type", "pwd_wait", "pwd_type"}

\* domains.py do_login: the step failAt raises ("none": no step does); a
\* wait that times out saves a screenshot (shotOk: it does not raise) and
\* raises again.  Every exception ends in the outer handler, which returns
\* False; nothing is checked after the password is submitted.
do_login_shot_escapes(failAt, shotOk) ==
    IF failAt = "none" THEN "True"
    ELSE IF failAt \in {"email_wait", "pwd_wait"} /\ ~shotOk THEN "raise"
    ELSE "False"
do_login(failAt, shotOk) ==
    LET body == IF failAt = "none" THEN "True" ELSE "exc"
    IN  IF body = "exc" THEN "False" ELSE body

\* password_input.press('Enter'): reached when no earlier step raised.
do_login_submits(failAt) == IF failAt = "none" THEN 1 ELSE 0

\* domains.py do_login, called from main: a single pass, one goto of the
\* login page; a wait that times out saves a screenshot first.
main_login ==
    /\ pc = "login"
    /\ script = "domains"
    /\ \E failAt \in DoLoginInputs, shotOk \in BOOLEAN :
        /\ lres' = do_login(failAt, shotOk)
        /\ submitsCall' = submitsCall + do_login_submits(failAt)
        /\ submitsRun' = submitsRun + do_login_submits(failAt)
        /\ shotTaken' = (shotTaken \/ (failAt \in {"email_wait", "pwd_wait"} /\ shotOk))
    /\ lpasses' = lpasses + 1
    /\ navsCall' = navsCall + 1
    /\ pc' = "login_ret"
    /\ UNCHANGED <<cfgVars, fnVars, attempt, lattempt, pending, exitStatus, nfailed,
                   brVars, rowVars, sent, cfRes, cfLoads, cfPolls,
                   sendFails, sleeps, resultWrites, reportStyle, loadFailed>>

\* The caller's `if not await login(page): raise Exception("登录失败")`; an
\* exception of login reaches the same handler.  The call is over.
login_returns ==
    /\ pc = "login_ret"
    /\ pc' = IF lres = "True" THEN "enumerate" ELSE "except"
    /\ lres' = "none"
    /\ lattempt' = 0
    /\ lpasses' = 0
    /\ navsCall' = 0
    /\ submitsCall' = 0
    /\ UNCHANGED <<cfgVars, fnVars, attempt, pending, exitStatus, nfailed,
                   brVars, rowVars, sent, cfRes, cfLoads, cfPolls, submitsRun, obsVars>>

\* ------------------------------------------------------------------------
\* Enumeration of the domain rows
\* ------------------------------------------------------------------------
RenewListOutcomes == {"goto_raises", "wait_timeout", "wait_error", "query_raises", "rows"}

\* renew.py renew_domains up to the row loop: the four lists are created
\* here, on every call.
renew_domains_load ==
    /\ pc = "enumerate"
    /\ script = "renew"
    /\ renewed' = <<>>
    /\ skipped' = <<>>
    /\ rowFail' = {}
    /\ rowIdx' = 1
    /\ \E o \in RenewListOutcomes, n \in 0..MaxRows :
        /\ loadFailed' = (o # "rows")
        /\ CASE o = "rows" ->
               /\ nrows' = n
               /\ failed' = <<>>
               /\ errors' = <<>>
               /\ pc' = IF n > 0 THEN "row" ELSE "report"
            [] o = "wait_timeout" ->
               /\ nrows' = 0
               /\ failed' = <<Entry(UnknownRow, FALSE)>>
               /\ errors' = <<Entry(UnknownRow, FALSE)>>
               /\ pc' = "report"
            [] OTHER ->
               /\ nrows' = 0
               /\ failed' = <<>>
               /\ errors' = <<Entry(UnknownRow, FALSE)>>
               /\ pc' = "report"
    /\ UNCHANGED <<cfgVars, fnVars, attempt, lattempt, pending, exitStatus, nfailed, brVars, sent,
                   rowRes, callVars, submitsRun, sendFails, sleeps, shotTaken, resultWrites, reportStyle>>

RenewCellOutcomes == {"ok", "absent", "raises"}
RenewRowSteps == {"btn_query_raises", "no_btn", "click_raises", "confirm_timeout",
                  "confirm_error", "ok"}

\* renew.py renew_domains, one pass of the row loop: every exception of
\* the row is caught by one of the two handlers of the row.
renew_domains_row ==
    /\ pc = "row"
    /\ script = "renew"
    /\ \E cell \in RenewCellOutcomes, step \in RenewRowSteps :
        LET i == rowIdx
            e == Entry(i, cell = "ok")
            outcome == IF cell = "raises" THEN "failed"
                       ELSE IF step = "no_btn" THEN "skipped"
                       ELSE IF step = "ok" THEN "renewed"
                       ELSE "failed"
        IN  /\ renewed' = IF outcome = "renewed" THEN Append(renewed, e) ELSE renewed
            /\ skipped' = IF outcome = "skipped" THEN Append(skipped, e) ELSE skipped
            /\ failed' = IF outcome = "failed" THEN Append(failed, e) ELSE failed
            /\ errors' = IF outcome = "failed" THEN Append(errors, e) ELSE errors
            /\ rowFail' = IF outcome = "failed" THEN rowFail \cup {i} ELSE rowFail
    /\ rowIdx' = rowIdx + 1
    /\ pc' = IF rowIdx + 1 > nrows THEN "report" ELSE "row"
    /\ UNCHANGED <<cfgVars, fnVars, attempt, lattempt, pending, exitStatus, nfailed,
                   brVars, nrows, rowRes, sent, callVars, submitsRun, obsVars>>

MainListOutcomes == {"goto_raises", "wait_raises", "all_raises", "rows"}

\* domains.py main: goto(DOMAINS_URL), wait_for_selector, locator.all().
\* None of the three is guarded, and the lists are not touched.
main_load ==
    /\ pc = "enumerate"
    /\ script = "domains"
    /\ \E o \in MainListOutcomes, n \in 0..MaxRows :
        /\ loadFailed' = (o # "rows")
        /\ IF o = "rows"
           THEN /\ nrows' = n
                /\ pc' = IF n > 0 THEN "row" ELSE "report"
           ELSE /\ nrows' = 0
                /\ pc' = "except"
    /\ rowIdx' = 1
    /\ UNCHANGED <<cfgVars, fnVars, attempt, lattempt, pending, exitStatus, nfailed,
                   brVars, renewed, failed, skipped, errors, rowFail, rowRes, sent,
                   callVars, submitsRun, sendFails, sleeps, shotTaken, resultWrites, reportStyle>>

\* How far the renewal pages of one domain offer the next element.
Stages == {"no_link", "no_order", "no_checkout", "not_confirmed", "confirmed"}
RaisePoints == {"none", "goto", "renew_click", "order_click", "accepttos",
                "checkout_click", "inner_text"}
ProcInputs == [stage : Stages, tos : BOOLEAN, raiseAt : RaisePoints, shotOk : BOOLEAN]

Result(kind, success, msg) == [kind |-> kind, success |-> success, msg |-> msg]

\* domains.py process_domain: kind "ret" with the returned pair, or kind
\* "raise" when the screenshot of the handler raises.
process_domain(p) ==
    LET body ==
          IF p.raiseAt = "goto" THEN "exc"
          ELSE IF p.stage = "no_link" THEN "none"
          ELSE IF p.raiseAt = "renew_click" THEN "exc"
          ELSE IF p.stage = "no_order" THEN "no_order"
          ELSE IF p.raiseAt = "order_click" THEN "exc"
          ELSE IF p.tos /\ p.raiseAt = "accepttos" THEN "exc"
          ELSE IF p.stage = "no_checkout" THEN "no_checkout"
          ELSE IF p.raiseAt \in {"checkout_click", "inner_text"} THEN "exc"
          ELSE IF p.stage = "confirmed" THEN "ok"
          ELSE IF p.shotOk THEN "confirm_failed"
          ELSE "exc"
    IN  CASE body = "ok" -> Result("ret", "True", "None")
          [] body = "none" -> Result("ret", "None", "None")
          [] body = "exc" -> IF p.shotOk THEN Result("ret", "False", "exception")
                             ELSE Result("raise", "False", "exception")
          [] OTHER -> Result("ret", "False", body)

AttrOutcomes == {"raises", "none", "noquote", "ok"}

\* `if success: renewed_domains.append(domain_name)
\*  elif error_msg: failed_domains.append(error_msg)`
row_appends_unless_none(res) ==
    [renewed |-> res.success # "None", failed |-> res.msg # "None"]
row_appends(res) ==
    [renewed |-> res.success = "True",
     failed |-> res.success # "True" /\ res.msg # "None"]

\* The row is left by an exception: nothing is appended and the row loop
\* is abandoned.
RowEscapes(i) ==
    /\ pc' = "except"
    /\ rowRes' = "raise"
    /\ rowFail' = rowFail \cup {i}
    /\ UNCHANGED <<renewed, failed, rowIdx>>

\* The row's loop body ran to its end.
RowDone(i, res) ==
    /\ renewed' = IF row_appends(res).renewed THEN Append(renewed, Entry(i, TRUE)) ELSE renewed
    /\ failed' = IF row_appends(res).failed THEN Append(failed, Entry(i, TRUE)) ELSE failed
    /\ rowFail' = IF res.success = "False" THEN rowFail \cup {i} ELSE rowFail
    /\ rowIdx' = rowIdx + 1
    /\ pc' = IF rowIdx + 1 > nrows THEN "report" ELSE "row"

\* domains.py main, one pass of the row loop.
main_row ==
    /\ pc = "row"
    /\ script = "domains"
    /\ \E attr \in AttrOutcomes :
        CASE attr \in {"raises", "noquote"} -> RowEscapes(rowIdx)
          [] attr = "none" ->
               /\ rowIdx' = rowIdx + 1
               /\ pc' = IF rowIdx + 1 > nrows THEN "report" ELSE "row"
               /\ rowRes' = "no_onclick"
               /\ UNCHANGED <<renewed, failed, rowFail>>
          [] OTHER ->
               \E textOk \in BOOLEAN :
                 IF ~textOk THEN RowEscapes(rowIdx)
                 ELSE \E p \in ProcInputs :
                        LET res == process_domain(p)
                        IN  IF res.kind = "raise" THEN RowEscapes(rowIdx)
                            ELSE \E backOk \in BOOLEAN :
                                   /\ rowRes' = res.success
                                   /\ IF backOk THEN RowDone(rowIdx, res)
                                      ELSE /\ RowDone(rowIdx, res)!1
                                           /\ RowDone(rowIdx, res)!2
                                           /\ rowFail' = rowFail \cup {rowIdx}
                                           /\ rowIdx' = rowIdx
                                           /\ pc' = "except"
    /\ UNCHANGED <<cfgVars, fnVars, attempt, lattempt, pending, exitStatus, nfailed,
                   brVars, skipped, errors, nrows, sent, callVars, submitsRun, obsVars>>

\* ------------------------------------------------------------------------
\* Report, failure handler, cleanup
\* ------------------------------------------------------------------------
\* renew.py: `if errors or failed:` picks the warning text of the report,
\* else the success text.
report_style_failed_only(errs, fl) == IF fl # <<>> THEN "warning" ELSE "success"
report_style(errs, fl) == IF errs # <<>> \/ fl # <<>> THEN "warning" ELSE "success"

\* domains.py: `if not renewed_domains and not failed_domains:` picks the
\* "nothing to do" text, else the text that lists both.
main_report_style(rn, fl) == IF rn = <<>> /\ fl = <<>> THEN "nothing" ELSE "lists"

\* The completion report and the `break` that follows it.
send_report ==
    /\ pc = "report"
    /\ reportStyle' = IF script = "renew" THEN report_style(errors, failed)
                      ELSE main_report_style(renewed, failed)
    /\ \E o \in SendOutcomes :
        LET r == send_telegram_notification(o)
        IN  /\ sent' = Notify("report")
            /\ sendFails' = sendFails + Failures(r)
            /\ IF r.raises
               THEN pc' = "except" /\ UNCHANGED pending
               ELSE pc' = "finally" /\ pending' = "break"
    /\ UNCHANGED <<cfgVars, fnVars, attempt, lattempt, exitStatus, nfailed, brVars, rowVars,
                   callVars, submitsRun, sleeps, shotTaken, resultWrites, loadFailed>>

\* `if attempt == CONFIG["max_retries"]` of the failure handlers.
is_last_attempt_always(a) == TRUE
is_last_attempt(a) == a = max_retries

\* renew.py run_renewal, `except Exception`: the final notification on the
\* last attempt, then asyncio.sleep(30).
run_renewal_except ==
    /\ pc = "except"
    /\ script = "renew"
    /\ nfailed' = nfailed + 1
    /\ \E o \in SendOutcomes :
        LET last == is_last_attempt(attempt)
            r == send_telegram_notification(o)
        IN  /\ sent' = IF last THEN Notify("final") ELSE sent
            /\ sendFails' = IF last THEN sendFails + Failures(r) ELSE sendFails
            /\ IF last /\ r.raises
               THEN pending' = "raise" /\ UNCHANGED sleeps
               ELSE pending' = "none" /\ sleeps' = sleeps + 1
    /\ pc' = "finally"
    /\ UNCHANGED <<cfgVars, fnVars, attempt, lattempt, exitStatus, brVars, rowVars,
                   callVars, submitsRun, shotTaken, resultWrites, reportStyle, loadFailed>>

\* domains.py: `if 'page' in locals():` of the handler, true once any
\* attempt of the run has bound the name.
handler_uses_page == pageOf # 0

\* domains.py main, `except Exception`: the screenshot comes first and is
\* taken on whatever page the local variable is bound to; a page of an
\* earlier attempt belongs to a browser that was closed.  Then the final
\* notification on the last attempt, then asyncio.sleep(30).
main_except ==
    /\ pc = "except"
    /\ script = "domains"
    /\ nfailed' = nfailed + 1
    /\ \E shotOk \in BOOLEAN, o \in SendOutcomes :
        LET last == is_last_attempt(attempt)
            r == send_telegram_notification(o)
        IN  IF handler_uses_page /\ ~(shotOk /\ pageOf = attempt)
            THEN /\ pending' = "raise"
                 /\ UNCHANGED <<sent, sendFails, sleeps, shotTaken>>
            ELSE /\ shotTaken' = (shotTaken \/ handler_uses_page)
                 /\ sent' = IF last THEN Notify("final") ELSE sent
                 /\ sendFails' = IF last THEN sendFails + Failures(r) ELSE sendFails
                 /\ IF last /\ r.raises
                    THEN pending' = "raise" /\ UNCHANGED sleeps
                    ELSE pending' = "none" /\ sleeps' = sleeps + 1
    /\ pc' = "finally"
    /\ UNCHANGED <<cfgVars, fnVars, attempt, lattempt, exitStatus, brVars, rowVars,
                   callVars, submitsRun, resultWrites, reportStyle, loadFailed>>

AfterFinally(p) == CASE p = "raise" -> "crashed"
                     [] p = "break" -> "returned"
                     [] OTHER -> "loop"

\* finally: `if browser: await browser.close()`, then
\* `if playwright: await playwright.stop()`.  An exception of close skips
\* stop, and an exception of either leaves the loop.  Stopping the driver
\* takes down a browser it launched that was not closed.
run_finally ==
    /\ pc = "finally"
    /\ \E closeOk \in BOOLEAN, stopOk \in BOOLEAN :
        LET closeRaises == brVar /\ ~closeOk
            stopRuns == pwVar /\ ~closeRaises
            stopRaises == stopRuns /\ ~stopOk
            p == IF closeRaises \/ stopRaises THEN "raise" ELSE pending
        IN  /\ closes' = IF brVar THEN closes + 1 ELSE closes
            /\ brLive' = IF (brVar /\ closeOk) \/ (stopRuns /\ stopOk /\ launched /\ ~brVar)
                         THEN brLive - 1 ELSE brLive
            /\ stops' = IF stopRuns THEN stops + 1 ELSE stops
            /\ pwLive' = IF stopRuns /\ stopOk THEN pwLive - 1 ELSE pwLive
            /\ pending' = p
            /\ pc' = AfterFinally(p)
    /\ UNCHANGED <<cfgVars, fnVars, attempt, lattempt, exitStatus, nfailed, pwVar, brVar,
                   pageOf, started, launched, rowVars, sent, callVars, submitsRun, obsVars>>

\* __main__: asyncio.run returned normally; nothing sets an exit status.
main_block_return ==
    /\ pc = "returned"
    /\ exitStatus' = 0
    /\ pc' = "exited"
    /\ UNCHANGED <<cfgVars, fnVars, attempt, lattempt, pending, nfailed, brVars, rowVars, sent,
                   callVars, submitsRun, obsVars>>

\* __main__: `except Exception` sends a notification and swallows the
\* exception; an exception of the handler itself would end the process
\* with status 1.
main_block_except ==
    /\ pc = "crashed"
    /\ \E o \in SendOutcomes :
        LET r == send_telegram_notification(o)
        IN  /\ sent' = Notify("crash")
            /\ sendFails' = sendFails + Failures(r)
            /\ exitStatus' = IF r.raises THEN 1 ELSE 0
    /\ pc' = "exited"
    /\ UNCHANGED <<cfgVars, fnVars, attempt, lattempt, pending, nfailed, brVars, rowVars,
                   callVars, submitsRun, sleeps, shotTaken, resultWrites, reportStyle, loadFailed>>

Next ==
    \/ validate_config
    \/ main_config_check
    \/ loop_head
    \/ setup_browser_context
    \/ init_browser
    \/ login
    \/ login_form
    \/ main_login
    \/ login_returns
    \/ renew_domains_load
    \/ renew_domains_row
    \/ main_load
    \/ main_row
    \/ send_report
    \/ run_renewal_except
    \/ main_except
    \/ run_finally
    \/ main_block_return
    \/ main_block_except

Spec == Init /\ [][Next]_vars

\* The run is one sequential flow whose waits all have timeouts: a step
\* that can be taken is taken.
FairSpec == Spec /\ WF_vars(Next)

\* ------------------------------------------------------------------------
\* Single calls
\* ------------------------------------------------------------------------
\* One call of one function, on every input the environment can give it.
CloudflareInputs == [kind : {"cf"}, obs : [1..CloudflareMaxRetries -> LoadObs], c : ClearPolls]

\* accepted: the site accepts the credentials; do_login never looks.
LoginInputs == [kind : {"do_login"}, failAt : DoLoginInputs, shotOk : BOOLEAN,
                accepted : BOOLEAN]

CallInit ==
    /\ email = "set"
    /\ password = "set"
    /\ tgSet = FALSE
    /\ NotStarted
    /\ called = FALSE
    /\ ret = NoCall
    /\ \/ /\ fn = "handle_cloudflare_with_retry"
          /\ script = "renew"
          /\ arg \in CloudflareInputs
       \/ /\ fn = "do_login"
          /\ script = "domains"
          /\ arg \in LoginInputs
       \/ /\ fn = "process_domain"
          /\ script = "domains"
          /\ arg \in [kind : {"process_domain"}, p : ProcInputs]

call_handle_cloudflare_with_retry ==
    /\ fn = "handle_cloudflare_with_retry"
    /\ ~called
    /\ called' = TRUE
    /\ ret' = cloudflare_call(arg.obs, arg.c)
    /\ UNCHANGED <<cfgVars, ctlVars, brVars, rowVars, sent, callVars, submitsRun,
                   obsVars, fn, arg>>

call_do_login ==
    /\ fn = "do_login"
    /\ ~called
    /\ called' = TRUE
    /\ ret' = [kind |-> "do_login", res |-> do_login(arg.failAt, arg.shotOk)]
    /\ UNCHANGED <<cfgVars, ctlVars, brVars, rowVars, sent, callVars, submitsRun,
                   obsVars, fn, arg>>

call_process_domain ==
    /\ fn = "process_domain"
    /\ ~called
    /\ called' = TRUE
    /\ ret' = process_domain(arg.p)
    /\ UNCHANGED <<cfgVars, ctlVars, brVars, rowVars, sent, callVars, submitsRun,
                   obsVars, fn, arg>>

CallNext ==
    \/ call_handle_cloudflare_with_retry
    \/ call_do_login
    \/ call_process_domain

CallSpec == CallInit /\ [][CallNext]_vars

TypeOK ==
    /\ attempt \in 0..max_retries
    /\ pending \in {"none", "break", "raise"}
    /\ exitStatus \in {-1, 0, 1}
    /\ rowIdx \in 1..(MaxRows + 1)
    /\ rowRes \in {"none", "no_onclick", "raise", "True", "False", "None"}
    /\ lres \in {"none", "True", "False", "raise"}
    /\ lpasses \in 0..max_retries
    /\ navsCall \in 0..(max_retries * CloudflareMaxRetries)
    /\ submitsRun \in 0..(max_retries * max_retries)
    /\ sendFails \in 0..2
    /\ sleeps \in 0..max_retries
    /\ resultWrites = 0

\* ------------------------------------------------------------------------
\* Properties
\* ------------------------------------------------------------------------
CredsAbsent == email \in {"unset", "empty"} \/ password \in {"unset", "empty"}
AttemptEnded == attempt >= 1 /\ pc \in {"loop", "returned", "crashed"}
LeftRowLoop == pc \in {"report", "except", "finally", "loop", "returned", "crashed", "exited"}
Reported == pc = "finally" /\ pending = "break"
FailureNotices == Cardinality({k \in 1..Len(sent) : sent[k] \in {"final", "crash"}})

\* C1: when DP_EMAIL or DP_PASSWORD is unset or empty, no driver is started
\* and no browser is launched, the retry loop is never entered, and the
\* run exits with status 1.
C1_MissingConfigExitsBeforeBrowser ==
    CredsAbsent =>
        /\ attempt = 0
        /\ ~started /\ ~launched
        /\ pwLive = 0 /\ brLive = 0
        /\ pc \in {"start", "exited"}
        /\ (pc = "exited" => exitStatus = 1)

C1_Witness == CredsAbsent /\ pc = "exited" /\ exitStatus = 1 /\ attempt = 0

\* C2: the run terminates; the attempt number never exceeds max_retries;
\* attempt k+1 starts only when k < max_retries and every attempt so far
\* ended in the failure handler (none completed with the report).
C2_BoundedAttemptsAndTermination ==
    /\ [](attempt <= max_retries)
    /\ [][attempt' # attempt =>
            /\ attempt' = attempt + 1
            /\ attempt < max_retries
            /\ nfailed = attempt
            /\ pending # "break"]_vars
    /\ <>(pc = "exited")

C2_Witness == pc = "exited" /\ attempt = max_retries /\ nfailed = max_retries

\* C3: with Telegram configured, a run whose max_retries attempts all
\* failed has sent exactly one failure notification when it ends, and none
\* is sent while fewer than max_retries attempts have failed.
C3_ExactlyOneFinalFailureNotification ==
    /\ (pc # "exited" /\ nfailed < max_retries) => FailureNotices = 0
    /\ (pc = "exited" /\ tgSet /\ nfailed = max_retries) => FailureNotices = 1

\* C4: a run whose max_retries attempts all failed exits with a nonzero
\* status.
C4_ExhaustedRetriesExitNonzero ==
    (pc = "exited" /\ nfailed = max_retries) => exitStatus \notin {0, -1}

\* C5: when an attempt has ended, browser.close() was called exactly once
\* on a browser the attempt launched and playwright.stop() exactly once on
\* a driver it started.
C5_BrowserReleasedOncePerAttempt ==
    AttemptEnded =>
        /\ (launched => closes = 1)
        /\ (started => stops = 1)

\* C6: at most one browser is open at any point of the run.
C6_AtMostOneBrowserOpen == brLive <= 1

\* C7: every attempt starts with empty renewed and failed lists, and the
\* report of the completing attempt lists no domain twice.
C7_NoStateCarriedIntoNextAttempt ==
    /\ (pc = "init" => renewed = <<>> /\ failed = <<>>)
    /\ (Reported => \A i \in 1..MaxRows : Count(renewed, i) + Count(failed, i) <= 1)

\* C8: once the row loop of an attempt has been left, every row after a
\* row whose processing failed has been visited.
C8_RowFailureDoesNotStopLoop ==
    LeftRowLoop =>
        \A i \in rowFail : \A j \in (i + 1)..nrows : j < rowIdx \/ j \in rowFail

\* C9: a row whose processing failed has exactly one entry in the failed
\* list and none in the renewed or skipped lists; a row processed without
\* failure has no entry in the failed list.
C9_FailedRowsRecordedOnce ==
    \A i \in 1..nrows :
        /\ i \in rowFail =>
              Count(failed, i) = 1 /\ Count(renewed, i) = 0 /\ Count(skipped, i) = 0
        /\ (i < rowIdx /\ i \notin rowFail) => Count(failed, i) = 0

\* C10: in the result a completed attempt reports, the three lists together
\* have as many entries as rows were enumerated.
C10_AccountingMatchesRows ==
    Reported => Len(renewed) + Len(failed) + Len(skipped) = nrows

\* C11: a notification send that fails never reaches the caller.  The step
\* that makes the failing send goes where the same step goes when the send
\* succeeds (validation still exits with status 1, the report is still
\* followed by the break, the failure handler still ends normally after its
\* sleep, the handler of __main__ still ends with status 0), and the exit
\* status of a run depends on the credentials only, never on a send.
C11_SendFailureNeverPropagates ==
    /\ [](pc = "exited" => exitStatus = IF CredsAbsent THEN 1 ELSE 0)
    /\ [][sendFails' > sendFails =>
            \/ pc = "start" /\ pc' = "exited" /\ exitStatus' = 1
            \/ pc = "report" /\ pc' = "finally" /\ pending' = "break"
            \/ pc = "except" /\ pc' = "finally" /\ pending' = "none"
                 /\ sleeps' = sleeps + 1
            \/ pc = "crashed" /\ pc' = "exited" /\ exitStatus' = 0]_vars

C11_Witness ==
    /\ sendFails > 0
    /\ pc = "exited"
    /\ pending = "break"
    /\ exitStatus = 0

\* C12: one invocation of the login step makes at most one pass: one
\* navigation to the login page and at most one credential submission.
C12_LoginHasNoRetryOfItsOwn ==
    /\ lpasses <= 1
    /\ navsCall <= 1
    /\ submitsCall <= 1

\* C13: an exception raised inside attempt k < max_retries, a step of the
\* failure handler included, is caught by the retry loop: the handler of
\* such an attempt never ends with an exception on its way out of the loop.
C13_ExceptionAbortsOnlyTheAttempt ==
    (pc = "finally" /\ attempt < max_retries) => pending # "raise"

\* C14: an attempt whose load of the domain-list page failed is not treated
\* as completed: it never reaches the completion report or its break.
C14_ListLoadFailureAbortsAttempt ==
    loadFailed => (pc # "report" /\ pending # "break")

\* C15: a run that completed an attempt has written the result record to
\* the result file exactly once when it ends.
C15_ResultFileWrittenOnce ==
    (pc = "exited" /\ pending = "break") => resultWrites = 1

\* C16: the 30-second sleep is taken between attempts only: attempt k
\* starts after k - 1 sleeps, and a run that leaves the retry loop after
\* attempt k has slept k - 1 times.
C16_SleepOnlyBetweenAttempts ==
    /\ pc = "init" => sleeps = attempt - 1
    /\ pc = "returned" => sleeps = attempt - 1

\* C17: when the failure handler of an attempt that opened a page has run
\* to its end, a screenshot of that page has been saved.
C17_AbortedAttemptHasScreenshot ==
    (pc = "finally" /\ pending = "none" /\ pageOf = attempt) => shotTaken

Sent(kind) == Cardinality({k \in 1..Len(sent) : sent[k] = kind})

\* C18: with notifications configured, the completion report and the
\* final-failure notification are never both sent in one run, the report
\* is sent at most once, and a run that has returned from the retry loop
\* has sent exactly one of the two.
C18_ReportXorFinalFailure ==
    /\ Sent("report") <= 1
    /\ ~(Sent("report") >= 1 /\ Sent("final") >= 1)
    /\ (tgSet /\ pc = "returned") => Sent("report") + Sent("final") = 1

C18_Witness ==
    /\ tgSet
    /\ pc = "returned"
    /\ nfailed = max_retries
    /\ Sent("final") = 1
    /\ Sent("report") = 0

\* C19: in renew.py a call of login gives its caller True or an exception,
\* never False: the loop of login is never left by running out of passes.
C19_LoginNeverReturnsFalse ==
    script = "renew" =>
        /\ lres # "False"
        /\ (pc = "login" => lattempt < max_retries)

C19_Witness ==
    /\ script = "renew"
    /\ pc = "login_ret"
    /\ lres = "raise"
    /\ lpasses = max_retries

\* C20: in renew.py one call of login submits the credentials at most
\* max_retries times and calls handle_cloudflare_with_retry at most
\* max_retries times, such a call loads the URL at most 3 times and polls
\* a challenge page at most 24 times, and a whole run submits the
\* credentials at most max_retries * max_retries times.
C20_NestedRetriesBounded ==
    script = "renew" =>
        /\ submitsCall <= max_retries
        /\ lpasses <= max_retries
        /\ cfLoads <= 3
        /\ cfPolls <= 24
        /\ submitsRun <= max_retries * max_retries

C20_Witness ==
    /\ script = "renew"
    /\ pc = "login_ret"
    /\ lpasses = max_retries
    /\ submitsCall = max_retries
    /\ submitsRun = max_retries * max_retries

\* C21: handle_cloudflare_with_retry ends in one of three ways.  It returns
\* True only when the URL it last read does not contain "challenge", and
\* after a detected challenge only when that URL contains "auth/login"; it
\* returns False exactly when its last attempt was a challenge that did not
\* clear in the 24 polls; it raises exactly when its last attempt raised;
\* and an attempt before the last that fails is followed by another.
C21_CloudflareOutcomes ==
    (fn = "handle_cloudflare_with_retry" /\ called) =>
        LET o == ret.last
            url == last_url(o)
            lastOne == (ret.loads = CloudflareMaxRetries)
        IN  /\ ret.res \in {"True", "False", "raise"}
            /\ ret.res = "True" =>
                  /\ o.exc = "none"
                  /\ ~url.chal
                  /\ (challenge_detected(o) => url.login)
            /\ ret.res = "False" <=>
                  /\ lastOne
                  /\ o.exc = "none"
                  /\ challenge_detected(o)
                  /\ (url.chal \/ ~url.login)
                  /\ ret.polls = 24
            /\ ret.res = "raise" <=> (lastOne /\ o.exc # "none")
            /\ ~lastOne => ret.res = "True"

C21_Witness ==
    /\ fn = "handle_cloudflare_with_retry"
    /\ called
    /\ ret.res = "False"
    /\ arg.obs[1].exc = "timeout"
    /\ challenge_detected(arg.obs[2])
    /\ ~ret.last.pollChal

\* C22: domains.py do_login never raises to its caller; it returns True
\* exactly when no step up to the submission of the password raised and
\* False otherwise, also when the error screenshot itself fails.
C22_DoLoginNeverRaises ==
    (fn = "do_login" /\ called) =>
        /\ ret.res \in {"True", "False"}
        /\ ret.res = "True" <=> arg.failAt = "none"

C22_Witness ==
    /\ fn = "do_login"
    /\ called
    /\ arg.failAt = "pwd_wait"
    /\ ~arg.shotOk
    /\ ret.res = "False"

\* C23: domains.py process_domain always returns a pair.  It returns
\* (True, None) only when the renew link, the Order/Continue button and the
\* checkout button were found and clicked and the page then confirmed the
\* order, with or without a terms checkbox; it returns (None, None) exactly
\* when it found no renew link; in every other case it returns (False, msg)
\* with a message.
C23_ProcessDomainResults ==
    (fn = "process_domain" /\ called) =>
        LET p == arg.p
            noLink == (p.raiseAt # "goto" /\ p.stage = "no_link")
            allDone == /\ p.stage = "confirmed"
                       /\ p.raiseAt = "none" \/ (p.raiseAt = "accepttos" /\ ~p.tos)
        IN  /\ ret.kind = "ret"
            /\ ret.success = "True" <=> allDone
            /\ ret.success = "True" => ret.msg = "None"
            /\ ret.success = "None" <=> noLink
            /\ ret.success = "None" => ret.msg = "None"
            /\ ret.success = "False" => ret.msg # "None"

\* C24: renew.py renew_domains never raises to its caller: the enumeration
\* always goes on to the next row or to the report.  Its lists satisfy
\* len(failed) <= len(errors) <= len(failed) + 1, so `errors or failed` is
\* the same as `errors`, and the success text of the report is sent only
\* when no row failed and the list was loaded.
C24_RenewDomainsNeverRaises ==
    /\ [](script = "renew" =>
            /\ Len(failed) <= Len(errors)
            /\ Len(errors) <= Len(failed) + 1
            /\ (errors # <<>> \/ failed # <<>>) <=> errors # <<>>
            /\ reportStyle = "success" => (rowFail = {} /\ ~loadFailed))
    /\ [][(script = "renew" /\ pc \in {"enumerate", "row"}) =>
            pc' \in {"row", "report"}]_vars

C24_Witness ==
    /\ script = "renew"
    /\ reportStyle = "warning"
    /\ loadFailed
    /\ failed = <<>>
    /\ Len(errors) = 1

\* C25: in domains.py the failure handler of attempt k takes its screenshot
\* only on the page opened by attempt k, never on the page an earlier
\* attempt left behind.
C25_HandlerUsesOwnPage ==
    (script = "domains" /\ pc = "except" /\ handler_uses_page) => pageOf = attempt

\* C26: when the Telegram token or chat id is unset, no notification
\* request is ever made, and every step that calls the send goes on as its
\* code does after a send that returned: validation exits with status 1,
\* the report is followed by the break, the handler of __main__ ends with
\* status 0, and an exception leaves the failure handler only from the
\* screenshot, never from the send.
C26_UnsetTelegramSendsNothing ==
    /\ [](~tgSet => (sent = <<>> /\ sendFails = 0))
    /\ [][~tgSet =>
            /\ (pc = "start" /\ CredsAbsent) => (pc' = "exited" /\ exitStatus' = 1)
            /\ pc = "report" => (pc' = "finally" /\ pending' = "break")
            /\ (pc = "except" /\ pending' = "raise") =>
                   (script = "domains" /\ handler_uses_page)
            /\ pc = "crashed" => (pc' = "exited" /\ exitStatus' = 0)]_vars

C26_Witness ==
    /\ ~tgSet
    /\ pc = "exited"
    /\ nfailed = max_retries
    /\ pending = "raise"
    /\ sent = <<>>

\* C27: in domains.py every pass of the row loop appends at most one entry
\* to the renewed and failed lists together and changes neither list in any
\* other way: a row without an onclick attribute, a row without a renew
\* link and a row left by an exception append nothing, a (True, None)
\* result appends to the renewed list only and a (False, msg) result to the
\* failed list only, the appended entry being the one of the row at hand.
C27_RowAddsAtMostOneEntry ==
    [][(script = "domains" /\ pc = "row") =>
         LET dr == Len(renewed') - Len(renewed)
             df == Len(failed') - Len(failed)
         IN  /\ dr \in {0, 1} /\ df \in {0, 1} /\ dr + df <= 1
             /\ SubSeq(renewed', 1, Len(renewed)) = renewed
             /\ SubSeq(failed', 1, Len(failed)) = failed
             /\ dr = 1 => renewed'[Len(renewed')][1] = rowIdx
             /\ df = 1 => failed'[Len(failed')][1] = rowIdx
             /\ rowRes' \in {"no_onclick", "None", "raise"} => (dr = 0 /\ df = 0)
             /\ rowRes' = "True" => (dr = 1 /\ df = 0)
             /\ rowRes' = "False" => (dr = 0 /\ df = 1)]_vars

C27_Witness ==
    /\ script = "domains"
    /\ pc = "row"
    /\ rowIdx = 2
    /\ rowRes = "False"
    /\ Len(renewed) = 0
    /\ Len(failed) = 1
    /\ failed[1][1] = 1

====
